---- MODULE Spec2Model ----
(***************************************************************************)
(* Model of the cluster coordination code of webssh/cluster.py: the node   *)
(* registry and the per-node command mailbox (NodeManager), the heartbeat  *)
(* and callback handlers of the machine channel, the dashboard handlers of *)
(* the human channel, the login rate limiter and the proxy forwarder.      *)
(*                                                                         *)
(* Python values are written as follows.  A str is a sequence of one-      *)
(* character strings, so that concatenation and splitting are real.  A     *)
(* dict is a function whose DOMAIN is its key set.  None and a missing     *)
(* request header are the tokens PyNone and NoHeader.  Every tornado       *)
(* handler without an await inside is one atomic action: the event loop is *)
(* single-threaded and suspends a coroutine only at an await.              *)
(***************************************************************************)
EXTENDS Integers, Sequences, FiniteSets, TLC

VARIABLES
    secret,         \* options.secret / settings['secret'] of the master
    auth_password,  \* options.auth_password of the master
    clock,          \* time.time() on the master, in seconds
    nodes,          \* NodeManager.nodes: node_id -> record of the node
    node_order,     \* insertion order of the keys of NodeManager.nodes
    command_queue,  \* NodeManager.command_queue: node_id -> list of commands
    log_buffer,     \* NodeManager.log_buffer: key -> content
    node_apps,      \* NodeManager.node_apps: node_id -> app list
    failures,       \* RateLimiter._failures: ip -> [count, reset]
    lockouts,       \* RateLimiter._lockouts: ip -> unlock timestamp
    inflight,       \* proxy forwards awaiting the node's response
    sent,           \* every request the proxy has sent to a node
    resp,           \* what the handler of the last step wrote (NoResp after a
                    \* step of the clock), with the header or credential
                    \* of its request
    enq,            \* history: the commands accepted for each node, in order
    delivered,      \* history: the commands returned to each node, in order
    mark,           \* history: Len(enq[n]) at n's previous accepted heartbeat
    lastHb,         \* history: master clock at n's last accepted heartbeat
    fails,          \* history: times of the failed logins of an ip (last 5)
    nfail,          \* history: the number of failed logins so far
    wasLocked,      \* history: the ips that have been locked out
    jar,            \* the auth_token cookie the master has set for each client
    loggedIn,       \* history: the clients whose login POST has succeeded
    awaits,         \* whether PeriodicCallback awaits a coroutine callback
    rounds,         \* the agent's heartbeat rounds in flight
    timer           \* the last firing of the agent's heartbeat timer

masterVars == <<nodes, node_order, command_queue, log_buffer, node_apps,
                inflight, sent, enq, delivered, mark, lastHb>>
loginVars  == <<failures, lockouts, fails, nfail, wasLocked, jar, loggedIn>>
agentVars  == <<awaits, rounds, timer>>
vars == <<secret, auth_password, clock, masterVars, loginVars, agentVars, resp>>

----------------------------------------------------------------------------
(* Bounds of the model *)

\* commands accepted by the master
MaxEnq == 2
\* the master clock stops here
MaxClock == 40
\* forwards in flight at once
MaxInflight == 1

----------------------------------------------------------------------------
(* Python values *)

PyNone   == <<"None">>
NoHeader == "<no header>"

EmptyDict == [k \in {} |-> 0]
Put(d, k, v) == [x \in DOMAIN d \cup {k} |-> IF x = k THEN v ELSE d[x]]
Del(d, k) == [x \in DOMAIN d \ {k} |-> d[x]]
Get(d, k, default) == IF k \in DOMAIN d THEN d[k] ELSE default

Range(s) == {s[i] : i \in 1..Len(s)}

\* the summed length of the lists of a dict
RECURSIVE SumLen(_, _)
SumLen(d, keys) ==
    IF keys = {} THEN 0
    ELSE LET k == CHOOSE x \in keys : TRUE IN Len(d[k]) + SumLen(d, keys \ {k})
TotalLen(d) == SumLen(d, DOMAIN d)

----------------------------------------------------------------------------
(* Inputs *)

NodeA == <<"a">>
NodeB == <<"b">>
NodeIds == {NodeA, NodeB}

TheSecret == "s3cr3t"
Secrets == {"", TheSecret}
\* values of the X-Cluster-Secret header
Headers == {NoHeader, "", TheSecret, "S3CR3T"}

ThePassword == <<"p", "w">>
Passwords == {<<>>, ThePassword}

Pm3 == <<"3">>
\* data.get('action') of a body without the key
NoAction == "<None>"

----------------------------------------------------------------------------
(* AuthGateway *)

\* MasterHandler.check_permission: `hdr` is the X-Cluster-Secret header
CheckPermission_EmptyHeader(cfg, hdr) == cfg = "" \/ hdr = cfg \/ hdr = ""
CheckPermission(cfg, hdr) == IF cfg = "" THEN TRUE ELSE hdr = cfg

\* An Authorization header: its first six characters (`prefix`), and what
\* base64.b64decode(header[6:]).decode('utf-8') makes of the rest: `ok` is
\* FALSE when either step raises, `text` is the decoded str otherwise.
NoAuthorization == [present |-> FALSE, prefix |-> "", ok |-> FALSE, text |-> <<>>]
Basic(text) == [present |-> TRUE, prefix |-> "Basic ", ok |-> TRUE, text |-> text]

\* A human-channel request: the auth_token cookie (PyNone when absent) and
\* the Authorization header.
Cred(cookie, authz) == [cookie |-> cookie, authz |-> authz]
Anonymous == Cred(PyNone, NoAuthorization)

\* index of the first ":" of s, 0 when there is none
FirstColon(s) ==
    IF \E i \in 1..Len(s) : s[i] = ":"
    THEN CHOOSE i \in 1..Len(s) : s[i] = ":" /\ \A j \in 1..(i-1) : s[j] /= ":"
    ELSE 0

\* auth_decoded.split(':', 1)[1]
PasswordOf(text) == SubSeq(text, FirstColon(text) + 1, Len(text))

\* BaseAuthHandler.check_auth
CheckAuth_LastColon(pw, req) ==
    \/ pw = <<>>
    \/ req.cookie = pw
    \/ /\ req.authz.present /\ req.authz.prefix = "Basic " /\ req.authz.ok
       /\ FirstColon(req.authz.text) /= 0
       /\ \E i \in 1..Len(req.authz.text) :
              /\ req.authz.text[i] = ":"
              /\ SubSeq(req.authz.text, i + 1, Len(req.authz.text)) = pw
CheckAuth(pw, req) ==
    IF pw = <<>> THEN TRUE
    ELSE IF req.cookie = pw THEN TRUE
    ELSE IF ~req.authz.present \/ req.authz.prefix /= "Basic " THEN FALSE
    ELSE IF ~req.authz.ok THEN FALSE
    ELSE IF FirstColon(req.authz.text) = 0 THEN FALSE
    ELSE PasswordOf(req.authz.text) = pw

----------------------------------------------------------------------------
(* Request bodies: what json.loads makes of them *)

Malformed == [kind |-> "malformed", d |-> EmptyDict]
NonDict   == [kind |-> "nondict", d |-> EmptyDict]
Dict(d)   == [kind |-> "dict", d |-> d]

\* A JSON array as the value of a key: its items between brackets.
JsonList(items) == <<"[">> \o items \o <<"]">>
EmptyList == JsonList(<<>>)

\* bool(x) of a str, a list or None
Falsy(v) == v = PyNone \/ v = <<>> \/ v = EmptyList

\* hash(x) raises TypeError: x is a list
Unhashable(v) == Len(v) >= 2 /\ v[1] = "[" /\ v[Len(v)] = "]"

----------------------------------------------------------------------------
(* NodeManager *)

\* NodeManager.update_node: the registry after it
UpdateNode_NoGuard(ns, data, now) ==
    Put(ns, Get(data, "node_id", PyNone), Put(data, "last_seen", now))
UpdateNode_TrustPayload(ns, data, now) ==
    IF Falsy(Get(data, "node_id", PyNone)) THEN ns
    ELSE Put(ns, data["node_id"], Put(data, "last_seen", Get(data, "last_seen", now)))
UpdateNode_Merge(ns, data, now) ==
    IF Falsy(Get(data, "node_id", PyNone)) THEN ns
    ELSE LET old == Get(ns, data["node_id"], EmptyDict)
         IN  Put(ns, data["node_id"],
                 [k \in DOMAIN old \cup DOMAIN data \cup {"last_seen"} |->
                     IF k = "last_seen" THEN now
                     ELSE IF k \in DOMAIN data THEN data[k] ELSE old[k]])
UpdateNode(ns, data, now) ==
    IF Falsy(Get(data, "node_id", PyNone)) THEN ns
    ELSE Put(ns, data["node_id"], Put(data, "last_seen", now))

\* the key order of NodeManager.nodes after update_node
UpdateOrder(order, data) ==
    IF Falsy(Get(data, "node_id", PyNone)) \/ data["node_id"] \in Range(order)
    THEN order
    ELSE Append(order, data["node_id"])

\* the liveness test of NodeManager.get_nodes
OnlineThreshold == 30
IsOnline(info, now) == (now - Get(info, "last_seen", 0)) < OnlineThreshold

\* NodeManager.get_nodes from the i-th key on: `ok` is FALSE when the loop
\* raises (KeyError: 'stats'), `list` is nodes_list, `store` the registry
\* with the records the loop has written to so far.
RECURSIVE GetNodesFrom(_, _, _, _, _, _)
GetNodesFrom(i, order, store, apps, now, acc) ==
    IF i > Len(order) THEN [ok |-> TRUE, list |-> acc, store |-> store]
    ELSE LET id   == order[i]
             info == store[id]
         IN  IF "stats" \notin DOMAIN info
             THEN [ok |-> FALSE, list |-> <<>>, store |-> store]
             ELSE LET withApps == Put(info, "stats",
                                      Put(info["stats"], "pm2", Get(apps, id, <<>>)))
                      withOnline == Put(withApps, "is_online", IsOnline(withApps, now))
                  IN  GetNodesFrom(i + 1, order, Put(store, id, withOnline), apps, now,
                                   Append(acc, withOnline))

GetNodes(order, store, apps, now) == GetNodesFrom(1, order, store, apps, now, <<>>)

\* NodeManager.update_apps
UpdateApps_KeepFirst(apps, node_id, lst) ==
    IF node_id \in DOMAIN apps THEN apps ELSE Put(apps, node_id, lst)
UpdateApps(apps, node_id, lst) == Put(apps, node_id, lst)

\* str(x) inside an f-string
Format(v) == IF v = PyNone THEN <<"N", "o", "n", "e">> ELSE v

\* the key of NodeManager.get_logs / save_logs
LogKey(node_id, pm_id) == Format(node_id) \o <<"_">> \o Format(pm_id)

\* NodeManager.save_logs
SaveLogs_ClearOthers(buf, node_id, pm_id, content) ==
    Put(EmptyDict, LogKey(node_id, pm_id), content)
SaveLogs(buf, node_id, pm_id, content) == Put(buf, LogKey(node_id, pm_id), content)

\* NodeManager.get_logs
GetLogs(buf, node_id, pm_id) == Get(buf, LogKey(node_id, pm_id), PyNone)

\* NodeManager.queue_command
QueueCommand_Prepend(q, node_id, command) ==
    IF node_id \notin DOMAIN q THEN Put(q, node_id, <<command>>)
    ELSE Put(q, node_id, <<command>> \o q[node_id])
QueueCommand_HeldDuringForward(q, node_id, command) ==
    IF inflight /= {} THEN q
    ELSE IF node_id \notin DOMAIN q THEN Put(q, node_id, <<command>>)
    ELSE Put(q, node_id, Append(q[node_id], command))
QueueCommand(q, node_id, command) ==
    IF node_id \notin DOMAIN q THEN Put(q, node_id, <<command>>)
    ELSE Put(q, node_id, Append(q[node_id], command))

\* NodeManager.update_node raises: the record cannot be stored under a key
\* that is not hashable
UpdateRaises(data) ==
    LET node_id == Get(data, "node_id", PyNone)
    IN  ~Falsy(node_id) /\ Unhashable(node_id)

\* NodeManager.pop_commands raises: `node_id in self.command_queue` of a
\* key that is not hashable
PopRaises_NoMailbox(q, node_id) == node_id \notin DOMAIN q
PopRaises(q, node_id) == Unhashable(node_id)

\* NodeManager.pop_commands: the list it returns
PopCommandsResult_DropsStale(q, node_id) ==
    IF node_id \in DOMAIN nodes /\ ~IsOnline(nodes[node_id], clock) THEN <<>>
    ELSE IF node_id \in DOMAIN q /\ q[node_id] /= <<>> THEN q[node_id] ELSE <<>>
PopCommandsResult(q, node_id) ==
    IF node_id \in DOMAIN q /\ q[node_id] /= <<>> THEN q[node_id] ELSE <<>>

\* NodeManager.pop_commands: the mailboxes after it
PopCommandsQueue_Keep(q, node_id) == q
PopCommandsQueue_ClearAll(q, node_id) == [k \in DOMAIN q |-> <<>>]
PopCommandsQueue(q, node_id) ==
    IF node_id \in DOMAIN q /\ q[node_id] /= <<>> THEN Put(q, node_id, <<>>) ELSE q

----------------------------------------------------------------------------
(* SlaveWorker.send_heartbeat: the payload the agent builds *)

\* A URL: everything before the query, and the query as key/value pairs.
Url(base, query) == [base |-> base, query |-> query]

\* ssh_link: my_url, with the SSH parameters (and the agent's secret)
\* appended to the query when ssh_user and ssh_password are set
SshLink(my_url, ssh_user, ssh_password, agent_secret) ==
    IF ssh_user /= "" /\ ssh_password /= ""
    THEN Url(my_url.base,
             my_url.query \o
             << <<"hostname", "localhost">>, <<"username", ssh_user>>,
                <<"password", "b64:" \o ssh_password>>, <<"port", "22">> >> \o
             (IF agent_secret /= "" THEN << <<"secret", agent_secret>> >> ELSE <<>>))
    ELSE my_url

\* data of send_heartbeat
HeartbeatData(node_id, my_url, ssh_user, ssh_password, agent_secret) ==
    [node_id  |-> node_id,
     name     |-> node_id,
     url      |-> SshLink(my_url, ssh_user, ssh_password, agent_secret),
     stats    |-> [cpu |-> 0],
     username |-> ssh_user]

\* headers['X-Cluster-Secret'] of send_heartbeat, report_logs, report_apps
AgentHeader(agent_secret) == IF agent_secret /= "" THEN agent_secret ELSE NoHeader

----------------------------------------------------------------------------
(* Handlers of the machine channel *)

\* MasterHandler.post
Heartbeat(hdr, body) ==
    IF ~CheckPermission(secret, hdr)
    THEN /\ resp' = [kind |-> "heartbeat", status |-> 403, hdr |-> hdr, body |-> body]
         /\ UNCHANGED <<masterVars, clock>>
    ELSE IF body.kind /= "dict" \/ UpdateRaises(body.d)
    THEN /\ resp' = [kind |-> "heartbeat", status |-> 400, hdr |-> hdr, body |-> body]
         /\ UNCHANGED <<masterVars, clock>>
    ELSE LET data == body.d
             nid  == Get(data, "node_id", PyNone)
             cmds == PopCommandsResult(command_queue, nid)
         IN  IF PopRaises(command_queue, nid)
             THEN /\ nodes' = UpdateNode(nodes, data, clock)
                  /\ node_order' = UpdateOrder(node_order, data)
                  /\ resp' = [kind |-> "heartbeat", status |-> 400, hdr |-> hdr,
                              body |-> body]
                  /\ UNCHANGED <<command_queue, log_buffer, node_apps, inflight, sent,
                                 enq, delivered, mark, lastHb, clock>>
             ELSE /\ nodes' = UpdateNode(nodes, data, clock)
                  /\ node_order' = UpdateOrder(node_order, data)
                  /\ command_queue' = PopCommandsQueue(command_queue, nid)
                  /\ resp' = [kind |-> "heartbeat", status |-> 200, hdr |-> hdr,
                              body |-> body, node_id |-> nid, commands |-> cmds,
                              since |-> Get(mark, nid, 0),
                              replaced |-> Get(nodes, nid, PyNone)]
                  /\ delivered' = IF cmds = <<>> THEN delivered
                                  ELSE Put(delivered, nid, Get(delivered, nid, <<>>) \o cmds)
                  /\ mark' = IF Falsy(nid) THEN mark
                             ELSE Put(mark, nid, Len(Get(enq, nid, <<>>)))
                  /\ lastHb' = IF Falsy(nid) THEN lastHb ELSE Put(lastHb, nid, clock)
                  /\ UNCHANGED <<log_buffer, node_apps, inflight, sent, enq, clock>>

\* LogCallbackHandler.post
LogCallback(hdr, body) ==
    IF ~CheckPermission(secret, hdr)
    THEN /\ resp' = [kind |-> "log_callback", status |-> 403, hdr |-> hdr,
                     body |-> body]
         /\ UNCHANGED <<masterVars, clock>>
    ELSE IF body.kind /= "dict"
    THEN /\ resp' = [kind |-> "log_callback", status |-> 400, hdr |-> hdr,
                     body |-> body]
         /\ UNCHANGED <<masterVars, clock>>
    ELSE /\ log_buffer' = SaveLogs(log_buffer, Get(body.d, "node_id", PyNone),
                                   Get(body.d, "pm_id", PyNone),
                                   Get(body.d, "content", PyNone))
         /\ resp' = [kind |-> "log_callback", status |-> 200, hdr |-> hdr,
                     body |-> body]
         /\ UNCHANGED <<nodes, node_order, command_queue, node_apps, inflight, sent,
                        enq, delivered, mark, lastHb, clock>>

\* AppListCallbackHandler.post
AppListCallback(hdr, body) ==
    IF ~CheckPermission(secret, hdr)
    THEN /\ resp' = [kind |-> "apps_callback", status |-> 403, hdr |-> hdr,
                     body |-> body]
         /\ UNCHANGED <<masterVars, clock>>
    ELSE IF body.kind /= "dict"
    THEN /\ resp' = [kind |-> "apps_callback", status |-> 400, hdr |-> hdr,
                     body |-> body]
         /\ UNCHANGED <<masterVars, clock>>
    ELSE /\ node_apps' = UpdateApps(node_apps, Get(body.d, "node_id", PyNone),
                                    Get(body.d, "apps", PyNone))
         /\ resp' = [kind |-> "apps_callback", status |-> 200, hdr |-> hdr,
                     body |-> body]
         /\ UNCHANGED <<nodes, node_order, command_queue, log_buffer, inflight, sent,
                        enq, delivered, mark, lastHb, clock>>

----------------------------------------------------------------------------
(* Handlers of the human channel *)

\* DashboardHandler.get: what dashboard.html is rendered with
Dashboard(cred) ==
    LET is_authed == CheckAuth(auth_password, cred)
    IN  /\ resp' = [kind |-> "dashboard", status |-> 200, is_authed |-> is_authed,
                    secret |-> IF is_authed THEN secret ELSE "",
                    guest |-> ~is_authed, cred |-> cred]
        /\ UNCHANGED <<masterVars, clock>>

\* NodeListHandler.get: no check_auth; `guest` records whether the request
\* would have passed it
NodeList(cred) ==
    LET r == GetNodes(node_order, nodes, node_apps, clock)
    IN  /\ nodes' = r.store
        /\ resp' = [kind |-> "nodes", status |-> IF r.ok THEN 200 ELSE 500,
                    list |-> r.list, guest |-> ~CheckAuth(auth_password, cred)]
        /\ UNCHANGED <<node_order, command_queue, log_buffer, node_apps, inflight,
                       sent, enq, delivered, mark, lastHb, clock>>

\* the guard of NodeControlHandler.post
ControlAllowed_Open(cred) == TRUE
ControlAllowed(cred) == CheckAuth(auth_password, cred)

\* NodeControlHandler.post
NodeControl(cred, body) ==
    IF ~ControlAllowed(cred)
    THEN /\ resp' = [kind |-> "control", status |-> 403, cred |-> cred,
                     body |-> body]
         /\ UNCHANGED <<masterVars, clock>>
    ELSE IF body.kind /= "dict"
    THEN /\ resp' = [kind |-> "control", status |-> 400, cred |-> cred,
                     body |-> body]
         /\ UNCHANGED <<masterVars, clock>>
    ELSE LET node_id == Get(body.d, "node_id", PyNone)
             action  == Get(body.d, "action", NoAction)
             command == [action |-> action, pm_id |-> Get(body.d, "pm_id", PyNone)]
         IN  IF Falsy(node_id) \/ action = NoAction \/ action = ""
             THEN /\ resp' = [kind |-> "control", status |-> 400, cred |-> cred,
                              body |-> body]
                  /\ UNCHANGED <<masterVars, clock>>
             ELSE /\ TotalLen(enq) < MaxEnq
                  /\ command_queue' = QueueCommand(command_queue, node_id, command)
                  /\ enq' = Put(enq, node_id, Append(Get(enq, node_id, <<>>), command))
                  /\ resp' = [kind |-> "control", status |-> 200, cred |-> cred,
                              body |-> body]
                  /\ UNCHANGED <<nodes, node_order, log_buffer, node_apps, inflight,
                                 sent, delivered, mark, lastHb, clock>>

\* what LogViewHandler.get writes as "logs"
Placeholder == <<"WAITING_FOR_DATA...">>
ViewLogs(buf, node_id, pm_id) ==
    LET logs == GetLogs(buf, node_id, pm_id)
    IN  IF Falsy(logs) THEN Placeholder ELSE logs

\* LogViewHandler.get
LogView(cred, node_id, pm_id) ==
    /\ resp' = IF ~CheckAuth(auth_password, cred)
               THEN [kind |-> "log_view", status |-> 403, cred |-> cred,
                     node_id |-> node_id, pm_id |-> pm_id]
               ELSE [kind |-> "log_view", status |-> 200, cred |-> cred,
                     node_id |-> node_id, pm_id |-> pm_id,
                     logs |-> ViewLogs(log_buffer, node_id, pm_id)]
    /\ UNCHANGED <<masterVars, clock>>

----------------------------------------------------------------------------
(* ProxyForwarder *)

\* clean_url + "/api/slave/pm2": the URL without its query, and the path
ApiUrl(target_url) == [base |-> target_url.base, path |-> "/api/slave/pm2"]

\* the request MasterAppsProxyHandler.post sends to the node
Forward(node_info, body) ==
    [api_url |-> ApiUrl(node_info["url"]),
     body    |-> body,
     header  |-> IF secret /= "" THEN secret ELSE NoHeader]

\* the guard of MasterAppsProxyHandler.post
ProxyAllowed(cred) == CheckAuth(auth_password, cred)

\* node_manager.nodes.get(node_id)
NodeInfo_AnyNode(ns, node_id) ==
    IF node_id \in DOMAIN ns THEN ns[node_id]
    ELSE IF ns = EmptyDict THEN PyNone
    ELSE ns[CHOOSE k \in DOMAIN ns : TRUE]
NodeInfo(ns, node_id) == Get(ns, node_id, PyNone)

\* MasterAppsProxyHandler.post up to its await: the request is refused,
\* fails, or is sent to the node and the handler is suspended (status 0:
\* no response written yet)
ProxyPost(cred, body) ==
    IF ~ProxyAllowed(cred)
    THEN /\ resp' = [kind |-> "proxy", status |-> 403, cred |-> cred, body |-> body]
         /\ UNCHANGED <<masterVars, clock>>
    ELSE IF body.kind /= "dict"
    THEN /\ resp' = [kind |-> "proxy", status |-> 500, cred |-> cred, body |-> body]
         /\ UNCHANGED <<masterVars, clock>>
    ELSE LET node_id   == Get(body.d, "node_id", PyNone)
             node_info == NodeInfo(nodes, node_id)
         IN  IF node_info = PyNone
             THEN /\ resp' = [kind |-> "proxy", status |-> 404, cred |-> cred,
                              body |-> body]
                  /\ UNCHANGED <<masterVars, clock>>
             ELSE IF "url" \notin DOMAIN node_info
             THEN /\ resp' = [kind |-> "proxy", status |-> 500, cred |-> cred,
                              body |-> body]
                  /\ UNCHANGED <<masterVars, clock>>
             ELSE /\ Cardinality(inflight) < MaxInflight
                  /\ inflight' = inflight \cup {Forward(node_info, body.d)}
                  /\ sent' = sent \cup {Forward(node_info, body.d)}
                  /\ resp' = [kind |-> "proxy", status |-> 0, cred |-> cred,
                              body |-> body]
                  /\ UNCHANGED <<nodes, node_order, command_queue, log_buffer,
                                 node_apps, enq, delivered, mark, lastHb, clock>>

\* the length of the excerpt of a non-JSON node body in the error object
ExcerptLen == 200

\* what the fetch of MasterAppsProxyHandler.post gives back: a response of
\* the node, with its code and its body (the body's text, what json.loads
\* makes of it, and the kind of that value), or an exception (no response)
FetchError == [kind |-> "error", message |-> <<"t", "i", "m", "e", "o", "u", "t">>]
NodeResponse(code, body) == [kind |-> "response", code |-> code, body |-> body]
ObjectBody == [kind |-> "object", text |-> <<"{", "\"", "o", "k", "\"", ":", "1", "}">>,
               value |-> [ok |-> 1]]
StringBody == [kind |-> "string", text |-> <<"\"", "o", "k", "\"">>,
               value |-> <<"o", "k">>]
ArrayBody  == [kind |-> "array", text |-> <<"[", "1", "]">>, value |-> JsonList(<<1>>)]
EmptyBody  == [kind |-> "text", text |-> <<>>]
HtmlBody   == [kind |-> "text", text |-> [i \in 1..(ExcerptLen + 1) |-> "h"]]
BinaryBody == [kind |-> "binary", text |-> <<"\\xff">>]

\* json.loads(response.body) succeeds
Loads(body) == body.kind \in {"object", "string", "array"}

\* RequestHandler.write accepts bytes, str and dict, and raises for the rest
WriteRaises(value_kind) == value_kind \notin {"object", "string"}

\* text[:n]
Take(text, n) == SubSeq(text, 1, IF Len(text) < n THEN Len(text) ELSE n)

\* {'error': ...} written with the status of the reply
ErrorReply(status, error) ==
    [status |-> status, content_type |-> "application/json", reply |-> [error |-> error]]

\* MasterAppsProxyHandler.post from its await on (Relay Response): what the
\* handler writes for the outcome of the fetch
Relay(response) ==
    IF response.kind = "error"
    THEN ErrorReply(500, [message |-> response.message])
    ELSE LET body == response.body
         IN  IF Loads(body) /\ ~WriteRaises(body.kind)
             THEN [status |-> response.code,
                   content_type |-> IF body.kind = "object" THEN "application/json"
                                    ELSE "text/html",
                   reply |-> body.value]
             ELSE IF body.kind = "binary"
             THEN ErrorReply(500, [message |-> <<"U", "n", "i", "c", "o", "d", "e">>])
             ELSE ErrorReply(response.code,
                             [slave_error |-> response.code,
                              excerpt |-> Take(body.text, ExcerptLen)])

\* MasterAppsProxyHandler.post from its await on: the fetch returns and the
\* handler writes its reply
ProxyRelay(fwd, response) ==
    /\ fwd \in inflight
    /\ inflight' = inflight \ {fwd}
    /\ resp' = [kind |-> "proxy", fwd |-> fwd, response |-> response]
                @@ Relay(response)
    /\ UNCHANGED <<nodes, node_order, command_queue, log_buffer, node_apps, sent,
                   enq, delivered, mark, lastHb, clock>>

----------------------------------------------------------------------------
(* The master: registry, mailboxes, stores and both channels *)

NoResp == [kind |-> "none", status |-> 0]

InitMaster ==
    /\ nodes = EmptyDict
    /\ node_order = <<>>
    /\ command_queue = EmptyDict
    /\ log_buffer = EmptyDict
    /\ node_apps = EmptyDict
    /\ inflight = {}
    /\ sent = {}
    /\ enq = EmptyDict
    /\ delivered = EmptyDict
    /\ mark = EmptyDict
    /\ lastHb = EmptyDict

InitLogin ==
    /\ failures = EmptyDict
    /\ lockouts = EmptyDict
    /\ fails = EmptyDict
    /\ nfail = 0
    /\ wasLocked = {}
    /\ jar = EmptyDict
    /\ loggedIn = {}

\* no agent is running
NoTimer == [n |-> 0, sent |-> FALSE, busy |-> "idle"]
InitNoAgent ==
    /\ awaits = FALSE
    /\ rounds = EmptyDict
    /\ timer = NoTimer

Init ==
    /\ secret \in Secrets
    /\ auth_password \in Passwords
    /\ clock = 0
    /\ InitMaster
    /\ InitLogin
    /\ InitNoAgent
    /\ resp = NoResp

\* time passes on the master
Tick(d) ==
    /\ clock + d <= MaxClock
    /\ clock' = clock + d
    /\ resp' = NoResp
    /\ UNCHANGED masterVars

\* the configuration and the rate limiter are left alone
Frame == UNCHANGED <<secret, auth_password, loginVars, agentVars>>

MyUrl == Url("http://node", <<>>)
\* the agent of node n, without SSH parameters, holding the secret s
AgentBody(n, s) == Dict(HeartbeatData(n, MyUrl, "", "", s))

Operator == Cred(ThePassword, NoAuthorization)
Creds == {Anonymous, Operator, Cred(<<"x">>, NoAuthorization),
          Cred(PyNone, Basic(<<"u", ":", "p", "w">>))}

----------------------------------------------------------------------------
(* Spec: the command mailbox between the operator and the agents *)

HeartbeatBodies == {AgentBody(n, "") : n \in NodeIds}
                   \cup {Malformed, NonDict, Dict(EmptyDict), Dict([node_id |-> <<>>]),
                         Dict([node_id |-> PyNone, name |-> <<"n">>]),
                         Dict([node_id |-> EmptyList]),
                         Dict([node_id |-> JsonList(<<"a">>), stats |-> [cpu |-> 0]])}
ControlBodies ==
    {Dict([node_id |-> n, action |-> a, pm_id |-> Pm3]) :
        n \in NodeIds, a \in {"restart", "logs"}}
    \cup {Dict([node_id |-> NodeA, action |-> "reboot", pm_id |-> Pm3])}
    \cup {Malformed, Dict([action |-> "restart"]), Dict([node_id |-> NodeA])}

Next ==
    \/ \E h \in {NoHeader, TheSecret}, b \in HeartbeatBodies : Heartbeat(h, b) /\ Frame
    \/ \E c \in {Anonymous, Operator}, b \in ControlBodies : NodeControl(c, b) /\ Frame

Spec == Init /\ [][Next]_vars

----------------------------------------------------------------------------
(* RateLimiter and LoginHandler *)

Threshold      == 5
WindowSeconds  == 300
LockoutSeconds == 900

\* RateLimiter.check: (allowed, wait_time) and the limiter after it
Check_Inclusive(fl, lk, ip, now) ==
    IF ip \in DOMAIN lk /\ now <= lk[ip]
    THEN [allowed |-> FALSE, wait |-> lk[ip] - now, failures |-> fl, lockouts |-> lk]
    ELSE IF ip \in DOMAIN lk
    THEN [allowed |-> TRUE, wait |-> 0, failures |-> Del(fl, ip), lockouts |-> Del(lk, ip)]
    ELSE [allowed |-> TRUE, wait |-> 0, failures |-> fl, lockouts |-> lk]
Check_KeepLockout(fl, lk, ip, now) ==
    IF ip \in DOMAIN lk /\ now < lk[ip]
    THEN [allowed |-> FALSE, wait |-> lk[ip] - now, failures |-> fl, lockouts |-> lk]
    ELSE IF ip \in DOMAIN lk
    THEN [allowed |-> TRUE, wait |-> 0, failures |-> Del(fl, ip), lockouts |-> lk]
    ELSE [allowed |-> TRUE, wait |-> 0, failures |-> fl, lockouts |-> lk]
Check_KeepFailures(fl, lk, ip, now) ==
    IF ip \in DOMAIN lk /\ now < lk[ip]
    THEN [allowed |-> FALSE, wait |-> lk[ip] - now, failures |-> fl, lockouts |-> lk]
    ELSE IF ip \in DOMAIN lk
    THEN [allowed |-> TRUE, wait |-> 0, failures |-> fl, lockouts |-> Del(lk, ip)]
    ELSE [allowed |-> TRUE, wait |-> 0, failures |-> fl, lockouts |-> lk]
Check_NeverRefuses(fl, lk, ip, now) ==
    [allowed |-> TRUE, wait |-> 0, failures |-> fl, lockouts |-> lk]
Check_ExtendsLockout(fl, lk, ip, now) ==
    IF ip \in DOMAIN lk /\ now < lk[ip]
    THEN [allowed |-> FALSE, wait |-> lk[ip] - now, failures |-> fl,
          lockouts |-> Put(lk, ip, now + LockoutSeconds)]
    ELSE IF ip \in DOMAIN lk
    THEN [allowed |-> TRUE, wait |-> 0, failures |-> Del(fl, ip), lockouts |-> Del(lk, ip)]
    ELSE [allowed |-> TRUE, wait |-> 0, failures |-> fl, lockouts |-> lk]
Check(fl, lk, ip, now) ==
    IF ip \in DOMAIN lk /\ now < lk[ip]
    THEN [allowed |-> FALSE, wait |-> lk[ip] - now, failures |-> fl, lockouts |-> lk]
    ELSE IF ip \in DOMAIN lk
    THEN [allowed |-> TRUE, wait |-> 0, failures |-> Del(fl, ip), lockouts |-> Del(lk, ip)]
    ELSE [allowed |-> TRUE, wait |-> 0, failures |-> fl, lockouts |-> lk]

\* RateLimiter.record_failure: the limiter after it, and its return value
RecordFailure_WindowInclusive(fl, lk, ip, now) ==
    LET fl2 == IF ip \notin DOMAIN fl \/ (now - fl[ip].reset >= WindowSeconds)
               THEN Put(fl, ip, [count |-> 1, reset |-> now])
               ELSE Put(fl, ip, [count |-> fl[ip].count + 1, reset |-> fl[ip].reset])
    IN  IF fl2[ip].count >= Threshold
        THEN [failures |-> fl2, lockouts |-> Put(lk, ip, now + LockoutSeconds),
              locked |-> TRUE]
        ELSE [failures |-> fl2, lockouts |-> lk, locked |-> FALSE]
RecordFailure(fl, lk, ip, now) ==
    LET fl2 == IF ip \notin DOMAIN fl \/ (now - fl[ip].reset > WindowSeconds)
               THEN Put(fl, ip, [count |-> 1, reset |-> now])
               ELSE Put(fl, ip, [count |-> fl[ip].count + 1, reset |-> fl[ip].reset])
    IN  IF fl2[ip].count >= Threshold
        THEN [failures |-> fl2, lockouts |-> Put(lk, ip, now + LockoutSeconds),
              locked |-> TRUE]
        ELSE [failures |-> fl2, lockouts |-> lk, locked |-> FALSE]

\* LoginHandler.post as a function of the limiter, the request and the
\* time: the status, whether the cookie is set, the limiter afterwards and
\* the seconds spent in time.sleep
LoginResult_CookieOn403(fl, lk, pw, ip, body, now) ==
    LET c == Check(fl, lk, ip, now)
    IN  IF ~c.allowed
        THEN [status |-> 429, cookie |-> PyNone, wait |-> c.wait, slept |-> 0,
              failures |-> c.failures, lockouts |-> c.lockouts]
        ELSE IF body.kind /= "dict"
        THEN [status |-> 400, cookie |-> PyNone, wait |-> 0, slept |-> 0,
              failures |-> c.failures, lockouts |-> c.lockouts]
        ELSE IF Get(body.d, "password", PyNone) = pw
        THEN [status |-> 200, cookie |-> pw, wait |-> 0, slept |-> 0,
              failures |-> Del(c.failures, ip), lockouts |-> c.lockouts]
        ELSE LET r == RecordFailure(c.failures, c.lockouts, ip, now)
             IN  [status |-> 403, cookie |-> pw, wait |-> 0, slept |-> 1,
                  failures |-> r.failures, lockouts |-> r.lockouts]
LoginResult_NoCheck(fl, lk, pw, ip, body, now) ==
    IF body.kind /= "dict"
    THEN [status |-> 400, cookie |-> PyNone, wait |-> 0, slept |-> 0,
          failures |-> fl, lockouts |-> lk]
    ELSE IF Get(body.d, "password", PyNone) = pw
    THEN [status |-> 200, cookie |-> pw, wait |-> 0, slept |-> 0,
          failures |-> Del(fl, ip), lockouts |-> lk]
    ELSE LET r == RecordFailure(fl, lk, ip, now)
         IN  [status |-> 403, cookie |-> PyNone, wait |-> 0, slept |-> 1,
              failures |-> r.failures, lockouts |-> r.lockouts]
LoginResult(fl, lk, pw, ip, body, now) ==
    LET c == Check(fl, lk, ip, now)
    IN  IF ~c.allowed
        THEN [status |-> 429, cookie |-> PyNone, wait |-> c.wait, slept |-> 0,
              failures |-> c.failures, lockouts |-> c.lockouts]
        ELSE IF body.kind /= "dict"
        THEN [status |-> 400, cookie |-> PyNone, wait |-> 0, slept |-> 0,
              failures |-> c.failures, lockouts |-> c.lockouts]
        ELSE IF Get(body.d, "password", PyNone) = pw
        THEN [status |-> 200, cookie |-> pw, wait |-> 0, slept |-> 0,
              failures |-> Del(c.failures, ip), lockouts |-> c.lockouts]
        ELSE LET r == RecordFailure(c.failures, c.lockouts, ip, now)
             IN  [status |-> 403, cookie |-> PyNone, wait |-> 0, slept |-> 1,
                  failures |-> r.failures, lockouts |-> r.lockouts]

\* the last n elements of s
LastN(s, n) == IF Len(s) <= n THEN s ELSE SubSeq(s, Len(s) - n + 1, Len(s))

\* the login clock stops here
MaxLoginClock == 906
\* failed logins in one run
MaxFails == 6

\* LoginHandler.post
Login(ip, body) ==
    LET r == LoginResult(failures, lockouts, auth_password, ip, body, clock)
    IN  /\ clock + r.slept <= MaxLoginClock
        /\ r.status = 403 => nfail < MaxFails
        /\ nfail' = IF r.status = 403 THEN nfail + 1 ELSE nfail
        /\ failures' = r.failures
        /\ lockouts' = r.lockouts
        /\ clock' = clock + r.slept
        /\ resp' = [kind |-> "login", status |-> r.status, ip |-> ip,
                    cookie |-> r.cookie, wait |-> r.wait, slept |-> r.slept,
                    body |-> body,
                    expired |-> (ip \in DOMAIN lockouts /\ clock >= lockouts[ip]),
                    locked |-> (ip \in DOMAIN lockouts /\ clock < lockouts[ip])]
        /\ fails' = IF r.status = 403
                    THEN Put(fails, ip, LastN(Append(Get(fails, ip, <<>>), clock), Threshold))
                    ELSE IF r.status = 200 THEN Del(fails, ip)
                    ELSE fails
        /\ wasLocked' = wasLocked \cup (DOMAIN r.lockouts \ DOMAIN lockouts)
        /\ jar' = IF r.cookie /= PyNone THEN Put(jar, ip, r.cookie) ELSE jar
        /\ loggedIn' = IF r.status = 200 THEN loggedIn \cup {ip} ELSE loggedIn
        /\ UNCHANGED <<masterVars, agentVars, secret, auth_password>>

\* time passes between two login requests
LoginTick(d) ==
    /\ clock + d <= MaxLoginClock
    /\ clock' = clock + d
    /\ resp' = NoResp
    /\ UNCHANGED <<masterVars, loginVars, agentVars, secret, auth_password>>

----------------------------------------------------------------------------
(* SpecLogin: the login endpoint and its rate limiter *)

Ips == {"10.0.0.1", "10.0.0.2"}
LoginBodies == {Dict([password |-> ThePassword]), Dict([password |-> <<"x">>]), Malformed}

InitLoginSpec ==
    /\ secret = TheSecret
    /\ auth_password = ThePassword
    /\ clock = 0
    /\ InitMaster
    /\ InitLogin
    /\ InitNoAgent
    /\ resp = NoResp

NextLogin ==
    \/ \E ip \in Ips, b \in LoginBodies : Login(ip, b)
    \/ \E d \in {299, 898, 899} : LoginTick(d)

SpecLogin == InitLoginSpec /\ [][NextLogin]_vars

----------------------------------------------------------------------------
(* SpecChannel: the machine channel, with every header a request may carry *)

Restart3 == Dict([node_id |-> NodeA, action |-> "restart", pm_id |-> Pm3])
LogBodies == {Dict([node_id |-> NodeA, pm_id |-> Pm3, content |-> <<"l", "o", "g">>]),
              Malformed}
AppsBodies == {Dict([node_id |-> NodeA, apps |-> <<"web">>]), Malformed}

NextChannel ==
    \/ \E h \in Headers, b \in {AgentBody(NodeA, ""), Malformed} : Heartbeat(h, b) /\ Frame
    \/ \E h \in Headers, b \in LogBodies : LogCallback(h, b) /\ Frame
    \/ \E h \in Headers, b \in AppsBodies : AppListCallback(h, b) /\ Frame
    \/ NodeControl(Operator, Restart3) /\ Frame

SpecChannel == Init /\ [][NextChannel]_vars

----------------------------------------------------------------------------
(* SpecProxy: the operator's requests, with and without a valid credential *)

ProxyBodies == {Dict([node_id |-> n, action |-> "list"]) : n \in NodeIds}
               \cup {Dict([action |-> "list"]), Malformed}

\* what a node, or the network, answers to a forward
NodeResponses ==
    {NodeResponse(200, ObjectBody), NodeResponse(500, ObjectBody),
     NodeResponse(200, StringBody), NodeResponse(200, ArrayBody),
     NodeResponse(403, EmptyBody), NodeResponse(500, HtmlBody),
     NodeResponse(200, BinaryBody), FetchError}

NextProxy ==
    \/ \E n \in NodeIds : Heartbeat(AgentHeader(secret), AgentBody(n, secret)) /\ Frame
    \/ \E c \in Creds, b \in {Restart3, Malformed} : NodeControl(c, b) /\ Frame
    \/ \E c \in Creds, b \in ProxyBodies : ProxyPost(c, b) /\ Frame
    \/ \E f \in inflight, r \in NodeResponses : ProxyRelay(f, r) /\ Frame
    \/ Tick(OnlineThreshold) /\ Frame

SpecProxy == Init /\ [][NextProxy]_vars

----------------------------------------------------------------------------
(* SpecRegistry: heartbeats, the clock and the node list *)

\* a heartbeat of node n that carries a last_seen and an is_online of its own
ForgedName == <<"f">>
ForgedBody(n) ==
    Dict([node_id |-> n, name |-> ForgedName, stats |-> [cpu |-> 0],
          last_seen |-> 1000, is_online |-> TRUE])

\* the heartbeats of SpecRegistry: the agent with and without SSH
\* parameters, a client that sends only its node_id, and one that sends a
\* last_seen and an is_online
RegistryBodies ==
    {AgentBody(n, secret) : n \in NodeIds}
    \cup {Dict(HeartbeatData(NodeA, MyUrl, "user", "pass", secret)),
          Dict([node_id |-> NodeB]), ForgedBody(NodeB)}

NextRegistry ==
    \/ \E b \in RegistryBodies : Heartbeat(AgentHeader(secret), b) /\ Frame
    \/ \E c \in {Anonymous, Operator} : NodeList(c) /\ Frame
    \/ \E c \in {Anonymous, Operator} : Dashboard(c) /\ Frame
    \/ \E d \in {10, 19} : Tick(d) /\ Frame

SpecRegistry == Init /\ [][NextRegistry]_vars

----------------------------------------------------------------------------
(* SpecAuth: check_auth on every kind of credential *)

AuthPasswords == {<<>>, ThePassword, <<"w">>, <<"p", ":", "w">>}
Cookies == {PyNone, <<>>, ThePassword, <<"w">>, <<"p", ":", "w">>, <<"x">>}
Texts == {<<"u", ":", "p", "w">>, <<"u", ":", "p", ":", "w">>, <<"p", "w">>,
          <<":", "p", "w">>, <<"p", "w", ":">>, <<":", "w">>, <<"u", ":", "x">>}
Authorizations ==
    {NoAuthorization}
    \cup {Basic(t) : t \in Texts}
    \cup {[present |-> TRUE, prefix |-> x, ok |-> TRUE, text |-> <<"u", ":", "p", "w">>] :
             x \in {"Bearer", "basic "}}
    \cup {[present |-> TRUE, prefix |-> "Basic ", ok |-> FALSE, text |-> <<>>]}
AuthCreds == {Cred(c, a) : c \in Cookies, a \in Authorizations}

InitAuth ==
    /\ secret \in Secrets
    /\ auth_password \in AuthPasswords
    /\ clock = 0
    /\ InitMaster
    /\ InitLogin
    /\ InitNoAgent
    /\ resp = NoResp

NextAuth ==
    \/ \E c \in AuthCreds : Dashboard(c) /\ Frame

SpecAuth == InitAuth /\ [][NextAuth]_vars

----------------------------------------------------------------------------
(* SlaveWorker: the heartbeat timer and the rounds it starts *)

\* the period of the PeriodicCallback of SlaveWorker.start, in seconds
HeartbeatInterval == 10

\* A round is one call of send_heartbeat: it is "sending" from its fetch to
\* the master's response and "executing" while it awaits, one after the
\* other, the commands of the response (`cmds`: those not finished yet).
Round(phase, cmds) == [phase |-> phase, cmds |-> cmds]

\* what the agent is doing
Busy == IF rounds = EmptyDict THEN "idle"
        ELSE IF \E id \in DOMAIN rounds : rounds[id].phase = "executing"
        THEN "executing" ELSE "sending"

\* The timer of SlaveWorker.start reaches its next multiple of 10 seconds.
\* send_heartbeat is a coroutine.  A PeriodicCallback that awaits its
\* callback (tornado 6.2 and later) has not rescheduled itself while a
\* round is in flight, so this tick is skipped; one that does not (before
\* 6.2) calls send_heartbeat at every tick and lets the round run on its
\* own.  The source pins no tornado release: `awaits` is either.
TimerFires ==
    /\ clock + HeartbeatInterval <= MaxClock
    /\ clock' = clock + HeartbeatInterval
    /\ IF awaits /\ rounds /= EmptyDict
       THEN /\ timer' = [n |-> timer.n + 1, sent |-> FALSE, busy |-> Busy]
            /\ UNCHANGED rounds
       ELSE /\ timer' = [n |-> timer.n + 1, sent |-> TRUE, busy |-> Busy]
            /\ rounds' = Put(rounds, timer.n + 1, Round("sending", <<>>))
    /\ resp' = NoResp
    /\ UNCHANGED <<masterVars, awaits>>

\* send_heartbeat from its fetch to the loop over the commands: the master
\* handles the heartbeat of round id and the agent reads the response
MasterReceives(id, node_id) ==
    /\ id \in DOMAIN rounds /\ rounds[id].phase = "sending"
    /\ Heartbeat(AgentHeader(secret), AgentBody(node_id, secret))
    /\ rounds' = IF resp'.status = 200 /\ resp'.commands /= <<>>
                 THEN Put(rounds, id, Round("executing", resp'.commands))
                 ELSE Del(rounds, id)
    /\ UNCHANGED <<awaits, timer>>

\* send_heartbeat of round id ends in its except branch: the fetch has
\* failed (network error, a status that is not 2xx) and the error is logged
RoundFails_Stuck(id) ==
    /\ id \in DOMAIN rounds /\ rounds[id].phase = "sending"
    /\ rounds' = Put(rounds, id, Round("failed", <<>>))
    /\ resp' = [kind |-> "agent", status |-> 0, event |-> "heartbeat_failed"]
    /\ UNCHANGED <<masterVars, clock, awaits, timer>>
RoundFails(id) ==
    /\ id \in DOMAIN rounds /\ rounds[id].phase = "sending"
    /\ rounds' = Del(rounds, id)
    /\ resp' = [kind |-> "agent", status |-> 0, event |-> "heartbeat_failed"]
    /\ UNCHANGED <<masterVars, clock, awaits, timer>>

\* what execute_remote_command reports to the master when the process
\* manager has done its work: report_logs for `logs`, report_apps for
\* `list_apps`, nothing for any other action
CallbackOf_RestartReports(cmd) ==
    IF cmd.action = "logs" THEN "logs"
    ELSE IF cmd.action \in {"list_apps", "restart"} THEN "apps" ELSE "none"
CallbackOf(cmd) ==
    IF cmd.action = "logs" THEN "logs"
    ELSE IF cmd.action = "list_apps" THEN "apps" ELSE "none"

\* the commands of a round that are still to be executed after the first
\* one has returned; `ok` is FALSE when the process manager failed (an
\* exception, the 30 s timeout or the non-zero exit of `pm2 jlist`), which
\* execute_remote_command catches and logs
Remaining_AbortOnFailure(cmds, ok) == IF ok THEN Tail(cmds) ELSE <<>>
Remaining(cmds, ok) == Tail(cmds)

\* the loop `for cmd in commands` of send_heartbeat: the command it awaits
\* next, of those of the response that are not finished
NextCommand_Last(cmds) == cmds[Len(cmds)]
NextCommand(cmds) == Head(cmds)

\* execute_remote_command of the first unfinished command of round id
\* returns: the process manager has exited and, when it succeeded, the
\* output of `logs` or `list_apps` has been posted to the master.  A
\* process manager that hangs is a round in which this step is not taken.
CommandDone(id, node_id, ok) ==
    /\ id \in DOMAIN rounds /\ rounds[id].phase = "executing"
    /\ LET cmd  == NextCommand(rounds[id].cmds)
           cb   == IF ok THEN CallbackOf(cmd) ELSE "none"
           rest == Remaining(rounds[id].cmds, ok)
       IN  /\ IF cb = "logs"
              THEN LogCallback(AgentHeader(secret),
                               Dict([node_id |-> node_id, pm_id |-> cmd.pm_id,
                                     content |-> <<"l", "o", "g">>]))
              ELSE IF cb = "apps"
              THEN AppListCallback(AgentHeader(secret),
                                   Dict([node_id |-> node_id, apps |-> <<"web">>]))
              ELSE /\ resp' = [kind |-> "agent", status |-> 0,
                               event |-> IF ok THEN "done" ELSE "failed", cmd |-> cmd]
                   /\ UNCHANGED <<masterVars, clock>>
           /\ rounds' = IF rest = <<>> THEN Del(rounds, id)
                        ELSE Put(rounds, id, Round("executing", rest))
    /\ UNCHANGED <<awaits, timer>>

----------------------------------------------------------------------------
(* SpecAgent: one agent, its master and an operator *)

InitAgent ==
    /\ secret = TheSecret
    /\ auth_password = ThePassword
    /\ clock = 0
    /\ InitMaster
    /\ InitLogin
    /\ awaits \in BOOLEAN
    /\ rounds = EmptyDict
    /\ timer = NoTimer
    /\ resp = NoResp

AgentFrame == UNCHANGED <<secret, auth_password, loginVars>>

Logs3 == Dict([node_id |-> NodeA, action |-> "logs", pm_id |-> Pm3])
ListApps == Dict([node_id |-> NodeA, action |-> "list_apps"])

NextAgent ==
    \/ TimerFires /\ AgentFrame
    \/ \E id \in DOMAIN rounds : MasterReceives(id, NodeA) /\ AgentFrame
    \/ \E id \in DOMAIN rounds : RoundFails(id) /\ AgentFrame
    \/ \E id \in DOMAIN rounds, ok \in BOOLEAN : CommandDone(id, NodeA, ok) /\ AgentFrame
    \/ \E b \in {Restart3, Logs3, ListApps} : NodeControl(Operator, b) /\ Frame

SpecAgent == InitAgent /\ [][NextAgent]_vars

\* the PeriodicCallback keeps firing
SpecAgentFair == SpecAgent /\ WF_vars(TimerFires /\ AgentFrame)

----------------------------------------------------------------------------
(* SpecInventory: inventories sent inline and by callback, and the node list *)

\* a heartbeat of node n that carries a process inventory in its stats
InlineName == <<"i">>
InlineBody(n) ==
    Dict([node_id |-> n, name |-> InlineName,
          stats |-> [cpu |-> 0, pm2 |-> <<"inline">>]])

InventoryCallbacks ==
    {Dict([node_id |-> n, apps |-> a]) : n \in NodeIds, a \in {<<"web">>, <<"web", "db">>}}
    \cup {Malformed}

NextInventory ==
    \/ \E b \in {AgentBody(NodeA, secret), InlineBody(NodeA)} :
          Heartbeat(AgentHeader(secret), b) /\ Frame
    \/ \E h \in {AgentHeader(secret), "S3CR3T"}, b \in InventoryCallbacks :
          AppListCallback(h, b) /\ Frame
    \/ \E c \in {Anonymous, Operator} : NodeList(c) /\ Frame

SpecInventory == Init /\ [][NextInventory]_vars

----------------------------------------------------------------------------
(* SpecLogs: log callbacks and log reads, with identifiers that hold a "_" *)

NodeAB == <<"a", "_", "b">>
PmBC   == <<"b", "_", "c">>
PmC    == <<"c">>
\* (node_id, pm_id) pairs; the second and the third have the same LogKey
LogPairs == {<<NodeA, Pm3>>, <<NodeA, PmBC>>, <<NodeAB, PmC>>}
LogContents == {<<"l", "o", "g">>, <<"x">>, <<>>}

LogCallbacks ==
    {Dict([node_id |-> p[1], pm_id |-> p[2], content |-> c]) :
        p \in LogPairs, c \in LogContents}
    \cup {Malformed}

NextLogs ==
    \/ \E h \in {AgentHeader(secret), "S3CR3T"}, b \in LogCallbacks :
          LogCallback(h, b) /\ Frame
    \/ \E c \in {Anonymous, Operator}, p \in LogPairs : LogView(c, p[1], p[2]) /\ Frame

SpecLogs == Init /\ [][NextLogs]_vars

----------------------------------------------------------------------------
(* SpecSession: clients that log in and then ask for the dashboard *)

\* A dashboard request of the client at `ip`: `origin` tells whether its
\* cookie is the one the master has set for it ("jar") or one the client
\* has set on its own ("own").
ClientCred(ip, cookie, authz, origin) ==
    [cookie |-> cookie, authz |-> authz, ip |-> ip, origin |-> origin]

InitSession ==
    /\ secret = TheSecret
    /\ auth_password \in Passwords
    /\ clock = 0
    /\ InitMaster
    /\ InitLogin
    /\ InitNoAgent
    /\ resp = NoResp

NextSession ==
    \/ \E ip \in Ips, b \in LoginBodies : Login(ip, b)
    \/ \E ip \in Ips, a \in {NoAuthorization, Basic(<<"u", ":", "p", "w">>)} :
          Dashboard(ClientCred(ip, Get(jar, ip, PyNone), a, "jar")) /\ Frame
    \/ \E ip \in Ips, ck \in {ThePassword, <<"x">>} :
          Dashboard(ClientCred(ip, ck, NoAuthorization, "own")) /\ Frame

SpecSession == InitSession /\ [][NextSession]_vars

----------------------------------------------------------------------------
(* SpecServing: requests that arrive while a forward waits for its node *)

ListA == Dict([node_id |-> NodeA, action |-> "list"])
LogA  == Dict([node_id |-> NodeA, pm_id |-> Pm3, content |-> <<"l", "o", "g">>])
AppsA == Dict([node_id |-> NodeA, apps |-> <<"web">>])

NextServing ==
    \/ Heartbeat(AgentHeader(secret), AgentBody(NodeA, secret)) /\ Frame
    \/ NodeControl(Operator, Restart3) /\ Frame
    \/ LogCallback(AgentHeader(secret), LogA) /\ Frame
    \/ AppListCallback(AgentHeader(secret), AppsA) /\ Frame
    \/ \E b \in {Dict([password |-> ThePassword]), Dict([password |-> <<"x">>])} :
          Login("10.0.0.1", b)
    \/ ProxyPost(Operator, ListA) /\ Frame
    \/ \E f \in inflight, r \in {NodeResponse(200, ObjectBody), FetchError} :
          ProxyRelay(f, r) /\ Frame

SpecServing == InitLoginSpec /\ [][NextServing]_vars

----------------------------------------------------------------------------
(* SpecStores: two nodes that heartbeat and call back, and their operator *)

NextStores ==
    \/ \E n \in NodeIds : Heartbeat(AgentHeader(secret), AgentBody(n, secret)) /\ Frame
    \/ \E n \in NodeIds :
          LogCallback(AgentHeader(secret),
                      Dict([node_id |-> n, pm_id |-> Pm3, content |-> <<"l", "o", "g">>]))
          /\ Frame
    \/ \E n \in NodeIds :
          AppListCallback(AgentHeader(secret), Dict([node_id |-> n, apps |-> <<"web">>]))
          /\ Frame
    \/ \E n \in NodeIds :
          NodeControl(Operator, Dict([node_id |-> n, action |-> "restart", pm_id |-> Pm3]))
          /\ Frame
    \/ Tick(OnlineThreshold) /\ Frame

SpecStores == InitLoginSpec /\ [][NextStores]_vars

----------------------------------------------------------------------------
(* The claims *)

\* how often c occurs in s
Count(s, c) == Cardinality({i \in 1..Len(s) : s[i] = c})

MailboxKeys == DOMAIN enq \cup DOMAIN delivered \cup DOMAIN command_queue

\* C1: at every moment each command accepted for a node is either still in
\* that node's mailbox or has been returned in exactly one heartbeat
\* response: per node and per command, the occurrences accepted equal the
\* occurrences returned so far plus the occurrences still queued.
C1_AtMostOnce ==
    \A n \in MailboxKeys :
        \A c \in Range(Get(enq, n, <<>>)) \cup Range(Get(delivered, n, <<>>))
                 \cup Range(Get(command_queue, n, <<>>)) :
            Count(Get(enq, n, <<>>), c) =
                Count(Get(delivered, n, <<>>), c) + Count(Get(command_queue, n, <<>>), c)

\* a node has had a command returned and has another one pending
C1_Witness ==
    \E n \in DOMAIN command_queue :
        /\ Len(Get(delivered, n, <<>>)) >= 1
        /\ Len(command_queue[n]) >= 1

\* C2: an accepted heartbeat of node n returns exactly the commands accepted
\* for n since n's previous accepted heartbeat, in the order they were
\* accepted (so a heartbeat right after another returns the empty list).
C2_FifoSinceLastHeartbeat ==
    (resp.kind = "heartbeat" /\ resp.status = 200 /\ ~Falsy(resp.node_id)) =>
        resp.commands = SubSeq(Get(enq, resp.node_id, <<>>), resp.since + 1,
                               mark[resp.node_id])

\* a heartbeat returns the one command accepted after the previous
\* heartbeat had returned an earlier one
C2_Witness ==
    /\ resp.kind = "heartbeat" /\ resp.status = 200
    /\ resp.since = 1
    /\ Len(resp.commands) = 1

\* whether a node list taken now shows n with is_online = true
ListedOnline(n) ==
    LET r == GetNodes(node_order, nodes, node_apps, clock)
    IN  /\ r.ok
        /\ \E i \in 1..Len(r.list) : r.list[i]["node_id"] = n /\ r.list[i]["is_online"]

\* C3: for every node of the registry and every evaluation time, the node
\* list reports is_online = true iff the node's most recent accepted
\* heartbeat was received strictly less than 30 seconds before.
C3_OnlineIffRecent ==
    \A n \in DOMAIN nodes : ListedOnline(n) <=> (clock - lastHb[n] < OnlineThreshold)

\* the login handler answers a request of ip with the right password by 429
RejectsRightPassword(ip) ==
    LoginResult(failures, lockouts, auth_password, ip,
                Dict([password |-> auth_password]), clock).status = 429

\* C4: after 5 failed logins of one ip spanning at most 300 seconds, with no
\* successful login between them, every attempt made before 900 seconds have
\* passed is rejected with 429, the right password included.
C4_FiveFailuresLockOut ==
    \A ip \in DOMAIN fails :
        ( /\ Len(fails[ip]) = Threshold
          /\ fails[ip][Threshold] - fails[ip][1] <= WindowSeconds
          /\ clock < fails[ip][Threshold] + LockoutSeconds )
        => RejectsRightPassword(ip)

\* C5: once the lockout (900 seconds after the failure that set it) has
\* elapsed, a login of that ip with the right password succeeds and leaves
\* the ip with neither a lockout nor a failure record; every successful
\* login leaves its ip without a failure record.
C5_SuccessAfterLockout ==
    /\ \A ip \in DOMAIN lockouts :
          /\ ip \in DOMAIN fails
          /\ lockouts[ip] = fails[ip][Len(fails[ip])] + LockoutSeconds
          /\ clock >= lockouts[ip] =>
                LET r == LoginResult(failures, lockouts, auth_password, ip,
                                     Dict([password |-> auth_password]), clock)
                IN  /\ r.status = 200
                    /\ ip \notin DOMAIN r.failures
                    /\ ip \notin DOMAIN r.lockouts
    /\ (resp.kind = "login" /\ resp.status = 200) =>
          /\ resp.ip \notin DOMAIN failures
          /\ resp.ip \notin DOMAIN lockouts

\* a login succeeded as the first request after its ip's lockout had elapsed
C5_Witness ==
    /\ resp.kind = "login" /\ resp.status = 200
    /\ resp.expired
    /\ resp.ip \in wasLocked

\* C6: an ip that has a lockout entry also has a failure record, whose count
\* is at least 5.
C6_LockoutImpliesFailures ==
    \A ip \in DOMAIN lockouts :
        ip \in DOMAIN failures /\ failures[ip].count >= Threshold

\* a locked-out ip has just been turned away: its records are still there
C6_Witness ==
    /\ resp.kind = "login" /\ resp.status = 429
    /\ resp.ip \in DOMAIN lockouts

\* whether the query of a URL carries the value s
UrlExposes(url, s) == \E i \in 1..Len(url.query) : url.query[i][2] = s

\* whether a response carries the value s
Exposes(r, s) ==
    \/ r.kind = "dashboard" /\ r.secret = s
    \/ /\ r.kind = "nodes"
       /\ \E i \in 1..Len(r.list) :
              "url" \in DOMAIN r.list[i] /\ UrlExposes(r.list[i]["url"], s)

\* C7: with a dashboard password and a secret configured, neither the
\* dashboard page nor the node list served to a guest carries the secret.
C7_GuestSeesNoSecret ==
    ( /\ resp.kind \in {"dashboard", "nodes"}
      /\ resp.guest
      /\ auth_password /= <<>>
      /\ secret /= "" )
    => ~Exposes(resp, secret)

MachineKinds == {"heartbeat", "log_callback", "apps_callback"}

\* C8: a machine-channel request is accepted (not answered 403) iff no
\* secret is configured or its X-Cluster-Secret header equals the secret; a
\* request answered 403 leaves the registry, the mailboxes, the log store
\* and the inventory store as they were.
C8_MachineChannel ==
    /\ [](resp.kind \in MachineKinds =>
            ((resp.status /= 403) <=> (secret = "" \/ resp.hdr = secret)))
    /\ [][(resp'.kind \in MachineKinds /\ resp'.status = 403) =>
            UNCHANGED <<nodes, node_order, command_queue, log_buffer, node_apps>>]_vars

\* a request is turned away while the registry, a mailbox and both stores
\* hold something
C8_Witness ==
    /\ resp.kind \in MachineKinds /\ resp.status = 403
    /\ nodes /= EmptyDict /\ log_buffer /= EmptyDict /\ node_apps /= EmptyDict
    /\ \E n \in DOMAIN command_queue : command_queue[n] /= <<>>

\* the auth_token cookie of the request equals the dashboard password
CookieMatches(req) == req.cookie /= PyNone /\ req.cookie = auth_password

\* the request carries a Basic credential whose part after the first colon
\* equals the dashboard password
BasicMatches(req) ==
    /\ req.authz.present /\ req.authz.prefix = "Basic " /\ req.authz.ok
    /\ \E i \in 1..Len(req.authz.text) :
          /\ req.authz.text[i] = ":"
          /\ \A j \in 1..(i - 1) : req.authz.text[j] /= ":"
          /\ SubSeq(req.authz.text, i + 1, Len(req.authz.text)) = auth_password

\* C9 as claimed: a request is authenticated iff its cookie or its Basic
\* password equals the dashboard password, whatever the configuration.
C9_AuthIffCredential ==
    resp.kind = "dashboard" =>
        (resp.is_authed <=> (CookieMatches(resp.cred) \/ BasicMatches(resp.cred)))

\* C9 as amended: a request is authenticated iff no dashboard password is
\* configured, or its cookie equals the dashboard password, or the password
\* of its Basic credential equals it.
C9_AuthIffCredentialOrOpenMode ==
    resp.kind = "dashboard" =>
        (resp.is_authed <=>
            (auth_password = <<>> \/ CookieMatches(resp.cred) \/ BasicMatches(resp.cred)))

\* a request without a cookie is authenticated by a Basic credential whose
\* password holds a colon
C9_Witness ==
    /\ resp.kind = "dashboard" /\ resp.is_authed
    /\ auth_password = <<"p", ":", "w">>
    /\ resp.cred.cookie = PyNone

\* C10: a control request or a proxy request that fails the human-channel
\* check is answered 403; it leaves every mailbox as it was and nothing is
\* sent to a node.
C10_ControlAndProxyNeedAuth ==
    [][( /\ resp'.kind \in {"control", "proxy"}
         /\ "cred" \in DOMAIN resp'
         /\ ~CheckAuth(auth_password, resp'.cred) )
       => ( /\ resp'.status = 403
            /\ UNCHANGED <<command_queue, sent, inflight>> )]_vars

\* a proxy request is refused although an authenticated one has been
\* forwarded before and a command is pending
C10_Witness ==
    /\ resp.kind = "proxy" /\ resp.status = 403
    /\ sent /= {}
    /\ \E n \in DOMAIN command_queue : command_queue[n] /= <<>>

\* the client of the last request was served as Authenticated
ServedAuthenticated ==
    /\ resp.kind = "dashboard" /\ "ip" \in DOMAIN resp.cred
    /\ resp.is_authed /\ resp.secret = secret

\* C11 as claimed: a client is served as Authenticated only after a login
\* POST of that client with the right password has succeeded.
C11_AuthenticatedOnlyAfterLogin ==
    ServedAuthenticated => resp.cred.ip \in loggedIn

\* C11 as amended: the master sets the cookie of a client only in a login
\* POST of that client that succeeded, and a client is served as
\* Authenticated only if no dashboard password is configured, or it presents
\* the cookie of such a login, or its request itself carries the password,
\* in a Basic credential or in a cookie the client has set on its own.
C11_AuthenticatedByLoginOrPassword ==
    /\ \A ip \in DOMAIN jar : ip \in loggedIn /\ jar[ip] = auth_password
    /\ ServedAuthenticated =>
          \/ auth_password = <<>>
          \/ resp.cred.origin = "jar" /\ resp.cred.cookie /= PyNone
                                      /\ resp.cred.ip \in loggedIn
          \/ resp.cred.origin = "own" /\ resp.cred.cookie = auth_password
          \/ BasicMatches(resp.cred)

\* a client that has failed a login and never succeeded is served as
\* Authenticated on its Basic credential, although a password is configured
C11_Witness ==
    /\ ServedAuthenticated
    /\ auth_password /= <<>>
    /\ resp.cred.ip \notin loggedIn
    /\ resp.cred.ip \in DOMAIN failures
    /\ BasicMatches(resp.cred)

\* C12: the login endpoint sets the cookie exactly in its 200 responses; a
\* 200 response answers a POST whose password equals the dashboard password
\* and whose ip is not locked out, and a 403, 429 or 400 response sets no
\* cookie.
C12_CookieOnlyOnSuccess ==
    resp.kind = "login" =>
        /\ (resp.cookie /= PyNone) <=> (resp.status = 200)
        /\ resp.status = 200 =>
              /\ resp.body.kind = "dict"
              /\ Get(resp.body.d, "password", PyNone) = auth_password
              /\ ~resp.locked
              /\ resp.cookie = auth_password
        /\ resp.status \in {400, 403, 429} => resp.cookie = PyNone

\* a locked-out ip posts the right password: 429, and it has no cookie
C12_Witness ==
    /\ resp.kind = "login" /\ resp.status = 429
    /\ resp.body = Dict([password |-> auth_password])
    /\ resp.cookie = PyNone
    /\ resp.ip \notin DOMAIN jar

\* the last request was a heartbeat that passed the secret check and whose
\* body is a JSON object without a node_id (no key, null, or "")
HeartbeatWithoutId(r) ==
    /\ r.kind = "heartbeat"
    /\ CheckPermission(secret, r.hdr)
    /\ r.body.kind = "dict"
    /\ Get(r.body.d, "node_id", PyNone) \in {PyNone, <<>>}

\* C13: a heartbeat whose body is a JSON object without a node_id is
\* answered 200 with an empty command list; it leaves the registry and
\* every mailbox as they were.
C13_HeartbeatWithoutId ==
    [][HeartbeatWithoutId(resp') =>
            /\ resp'.status = 200
            /\ resp'.commands = <<>>
            /\ UNCHANGED <<nodes, node_order, command_queue>>]_vars

\* such a heartbeat has been answered while a node is registered that has
\* a command pending
C13_Witness ==
    /\ HeartbeatWithoutId(resp) /\ resp.status = 200
    /\ \E n \in DOMAIN nodes : Get(command_queue, n, <<>>) /= <<>>

\* the last request was a proxy request that passed check_auth with a JSON
\* object as its body
ProxyRequest(r) ==
    /\ r.kind = "proxy" /\ "body" \in DOMAIN r
    /\ CheckAuth(auth_password, r.cred)
    /\ r.body.kind = "dict"

\* C14: an authenticated proxy request that names a node_id absent from the
\* registry is answered 404 and nothing is sent to any node.
C14_ProxyUnknownNode ==
    [][(ProxyRequest(resp') /\ Get(resp'.body.d, "node_id", PyNone) \notin DOMAIN nodes)
            => (resp'.status = 404 /\ UNCHANGED <<sent, inflight>>)]_vars

\* node b is not registered and a proxy request for it is answered 404,
\* while node a is registered and has been forwarded to before
C14_Witness ==
    /\ ProxyRequest(resp) /\ resp.status = 404
    /\ Get(resp.body.d, "node_id", PyNone) = NodeB
    /\ NodeA \in DOMAIN nodes /\ NodeB \notin DOMAIN nodes
    /\ sent /= {}

\* C15: an authenticated proxy request that names a registered node whose
\* last heartbeat is 30 seconds old or older is answered 404, not forwarded.
C15_ProxyOfflineNode ==
    (ProxyRequest(resp) /\ Get(resp.body.d, "node_id", PyNone) \in DOMAIN nodes) =>
        LET n == resp.body.d["node_id"]
        IN  (clock - lastHb[n] >= OnlineThreshold) => resp.status = 404

\* C18: the last_seen of every registry entry is the master's clock at the
\* node's most recent accepted heartbeat, and the node list reports that
\* last_seen and the liveness computed from it, whatever last_seen or
\* is_online the heartbeat payload carried.
C18_LastSeenIsMasterClock ==
    /\ \A n \in DOMAIN nodes : nodes[n]["last_seen"] = lastHb[n]
    /\ (resp.kind = "nodes" /\ resp.status = 200) =>
          \A i \in 1..Len(resp.list) :
              LET e == resp.list[i]
              IN  /\ e["last_seen"] = lastHb[e["node_id"]]
                  /\ e["is_online"] = (clock - lastHb[e["node_id"]] < OnlineThreshold)

\* a node whose last heartbeat claimed to be online, with a last_seen in
\* the future, is listed as offline
C18_Witness ==
    /\ resp.kind = "nodes" /\ resp.status = 200
    /\ \E i \in 1..Len(resp.list) :
          /\ resp.list[i]["name"] = ForgedName
          /\ ~resp.list[i]["is_online"]
          /\ resp.list[i]["last_seen"] /= ForgedBody(NodeB).d["last_seen"]

\* C19: at every reachable state of the limiter and for every ip, check
\* denies, with the seconds that remain and without touching the limiter,
\* exactly when the ip has a lockout that lies in the future; when the ip
\* has a lockout that has been reached, check allows and removes the ip's
\* lockout and failure record; a login is answered 429 exactly when its ip
\* was locked out.
C19_CheckDeniesWhileLocked ==
    /\ \A ip \in Ips :
          LET c        == Check(failures, lockouts, ip, clock)
              isLocked == ip \in DOMAIN lockouts /\ clock < lockouts[ip]
              isOver   == ip \in DOMAIN lockouts /\ clock >= lockouts[ip]
          IN  /\ c.allowed <=> ~isLocked
              /\ isLocked => /\ c.wait = lockouts[ip] - clock
                             /\ c.failures = failures /\ c.lockouts = lockouts
              /\ isOver => /\ c.wait = 0
                           /\ c.failures = Del(failures, ip)
                           /\ c.lockouts = Del(lockouts, ip)
              /\ ip \notin DOMAIN lockouts =>
                    c.failures = failures /\ c.lockouts = lockouts
    /\ resp.kind = "login" =>
          /\ (resp.status = 429) <=> resp.locked
          /\ resp.status = 429 => resp.wait > 0

\* the first request of an ip after its lockout has run out has a malformed
\* body: check has removed the lockout and the failure record
C19_Witness ==
    /\ resp.kind = "login" /\ resp.status = 400
    /\ resp.expired
    /\ resp.ip \notin DOMAIN failures
    /\ resp.ip \notin DOMAIN lockouts

\* C20: at every reachable state where check allows ip, record_failure
\* starts a window with count 1 when ip has no failure record or its window
\* started more than 300 seconds ago and increments the count otherwise;
\* the count stays within 1..5; when it is 5 the ip gets the lockout
\* now + 900 and True is returned, below 5 no lockout is made and False is
\* returned; no other ip is touched.
C20_RecordFailure ==
    \A ip \in Ips :
        LET c == Check(failures, lockouts, ip, clock)
        IN  c.allowed =>
            LET fl    == c.failures
                r     == RecordFailure(fl, c.lockouts, ip, clock)
                fresh == ip \notin DOMAIN fl \/ clock - fl[ip].reset > WindowSeconds
                n     == r.failures[ip].count
            IN  /\ fresh => r.failures[ip] = [count |-> 1, reset |-> clock]
                /\ ~fresh => r.failures[ip] =
                                [count |-> fl[ip].count + 1, reset |-> fl[ip].reset]
                /\ n \in 1..Threshold
                /\ r.locked <=> (n = Threshold)
                /\ r.locked => r.lockouts = Put(c.lockouts, ip, clock + LockoutSeconds)
                /\ ~r.locked => r.lockouts = c.lockouts
                /\ \A o \in DOMAIN fl \ {ip} : r.failures[o] = fl[o]

\* a failed login exactly 300 seconds after the start of its ip's window
\* has been counted in that window
C20_Witness ==
    /\ resp.kind = "login" /\ resp.status = 403
    /\ failures[resp.ip].count >= 2
    /\ (clock - 1) - failures[resp.ip].reset = WindowSeconds

\* C16: a timer tick that comes while a command of an earlier heartbeat is
\* still executing sends its heartbeat all the same.
C16_SlowCommandDelaysNoHeartbeat ==
    timer.busy = "executing" => timer.sent

\* C17: at no time is more than one heartbeat round of the agent in flight.
C17_OneRoundAtATime ==
    Cardinality(DOMAIN rounds) <= 1

\* C21: a heartbeat answered 400 leaves the registry and every mailbox as
\* they were.
C21_RejectedHeartbeatChangesNothing ==
    [][(resp'.kind = "heartbeat" /\ resp'.status = 400) =>
            UNCHANGED <<nodes, node_order, command_queue>>]_vars

\* a heartbeat whose node_id is a list has been answered 400 while a node
\* is registered and a command is pending
C21_Witness ==
    /\ resp.kind = "heartbeat" /\ resp.status = 400
    /\ resp.body.kind = "dict" /\ Unhashable(Get(resp.body.d, "node_id", PyNone))
    /\ nodes /= EmptyDict
    /\ \E n \in DOMAIN command_queue : command_queue[n] /= <<>>

\* C22: every node list call succeeds and returns one entry for each node
\* of the registry, with is_online computed at the time of the call.
C22_ListNeverFails ==
    resp.kind = "nodes" =>
        /\ resp.status = 200
        /\ Len(resp.list) = Cardinality(DOMAIN nodes)
        /\ \A n \in DOMAIN nodes :
              \E i \in 1..Len(resp.list) :
                  /\ resp.list[i]["node_id"] = n
                  /\ resp.list[i]["is_online"] = IsOnline(nodes[n], clock)

\* C23: right after an accepted heartbeat of a node, the node's record is
\* the heartbeat's payload with last_seen set to the master's clock, and
\* nothing else.
C23_RecordReplacedWholesale ==
    (resp.kind = "heartbeat" /\ resp.status = 200 /\ ~Falsy(resp.node_id)) =>
        nodes[resp.node_id] = Put(resp.body.d, "last_seen", clock)

\* the record replaced had a url and the is_online of a list call; the
\* heartbeat carried neither and the new record has neither
C23_Witness ==
    /\ resp.kind = "heartbeat" /\ resp.status = 200 /\ ~Falsy(resp.node_id)
    /\ resp.replaced /= PyNone
    /\ {"url", "is_online"} \subseteq DOMAIN resp.replaced
    /\ {"url", "is_online"} \cap DOMAIN nodes[resp.node_id] = {}

\* the actions SlaveWorker.execute_remote_command knows
ValidActions == {"start", "stop", "restart", "delete", "logs", "list_apps"}

\* C25: every command in a mailbox and every command returned to a node
\* has one of the six actions.
C25_OnlyValidActions ==
    /\ \A n \in DOMAIN command_queue :
          \A i \in 1..Len(command_queue[n]) : command_queue[n][i].action \in ValidActions
    /\ \A n \in DOMAIN delivered :
          \A i \in 1..Len(delivered[n]) : delivered[n][i].action \in ValidActions

\* C24: a node whose accepted heartbeats are at most 30 seconds apart is
\* shown as online by every node list; in particular a list taken exactly
\* 30 seconds after the node's last heartbeat, when the next one is due,
\* shows it as online.
C24_OnlineUpToThirtySeconds ==
    (resp.kind = "nodes" /\ resp.status = 200) =>
        \A i \in 1..Len(resp.list) :
            (clock - lastHb[resp.list[i]["node_id"]] = OnlineThreshold)
                => resp.list[i]["is_online"]

\* the ticks of the heartbeat timer
TickNumbers == 0..(MaxClock \div HeartbeatInterval)

\* C26: a heartbeat round that fails starts no new round and leaves the
\* timer as it is, and whenever a round has failed while the timer has a
\* tick ahead, the next tick comes and sends a heartbeat.
C26_HeartbeatAfterFailure ==
    /\ [][(resp'.kind = "agent" /\ resp'.event = "heartbeat_failed") =>
             (timer' = timer /\ DOMAIN rounds' \subseteq DOMAIN rounds)]_vars
    /\ \A k \in TickNumbers :
          ( /\ resp.kind = "agent" /\ resp.event = "heartbeat_failed"
            /\ timer.n = k
            /\ clock + HeartbeatInterval <= MaxClock )
          ~> (timer.n = k + 1 /\ timer.sent)

\* the only round in flight has failed, where the timer awaits its rounds
\* and has a tick ahead
C26_Witness ==
    /\ resp.kind = "agent" /\ resp.event = "heartbeat_failed"
    /\ awaits /\ rounds = EmptyDict
    /\ timer.n >= 1
    /\ clock + HeartbeatInterval <= MaxClock

\* the step finishes the first command of a round, and that command is c
FinishesCommand(c) ==
    \E id \in DOMAIN rounds :
        /\ rounds[id].phase = "executing"
        /\ Head(rounds[id].cmds) = c
        /\ rounds' = IF Len(rounds[id].cmds) = 1 THEN Del(rounds, id)
                     ELSE Put(rounds, id, Round("executing", Tail(rounds[id].cmds)))

\* C27: the log store changes only in a log callback and the inventory
\* store only in an inventory callback; a log callback comes from a `logs`
\* command that finishes, for the agent's node_id and the command's pm_id;
\* an inventory callback comes from a `list_apps` command that finishes,
\* for the agent's node_id.
C27_CallbacksOnlyForLogsAndListApps ==
    [][ /\ (log_buffer' /= log_buffer) => resp'.kind = "log_callback"
        /\ (node_apps' /= node_apps) => resp'.kind = "apps_callback"
        /\ resp'.kind = "log_callback" =>
              /\ resp'.body.d["node_id"] = NodeA
              /\ FinishesCommand([action |-> "logs", pm_id |-> resp'.body.d["pm_id"]])
        /\ resp'.kind = "apps_callback" =>
              /\ resp'.body.d["node_id"] = NodeA
              /\ \E c \in Range(Get(enq, NodeA, <<>>)) :
                    c.action = "list_apps" /\ FinishesCommand(c) ]_vars

\* a restart has been executed with success after the log callback of a
\* `logs` command, and the stores are as that callback left them
C27_Witness ==
    /\ resp.kind = "agent" /\ resp.event = "done"
    /\ resp.cmd.action = "restart"
    /\ DOMAIN log_buffer = {LogKey(NodeA, Pm3)}
    /\ node_apps = EmptyDict

C29_InventoryFromCallback ==
    /\ (resp.kind = "nodes" /\ resp.status = 200) =>
          \A i \in 1..Len(resp.list) :
              resp.list[i]["stats"]["pm2"] = Get(node_apps, resp.list[i]["node_id"], <<>>)
    /\ (resp.kind = "apps_callback" /\ resp.status = 200) =>
          node_apps[resp.body.d["node_id"]] = resp.body.d["apps"]

\* a node whose heartbeat carried an inventory of its own is listed with
\* the inventory of a callback
C29_Witness ==
    /\ resp.kind = "nodes" /\ resp.status = 200
    /\ \E i \in 1..Len(resp.list) :
          /\ resp.list[i]["name"] = InlineName
          /\ resp.list[i]["stats"]["pm2"] = <<"web", "db">>

\* C30: right after an accepted log callback for (node_id, pm_id) with
\* content c a read of (node_id, pm_id) returns c, and what a read of a pair
\* returns changes only in an accepted log callback for that pair.
C30_LastWriteWinsPerPair ==
    [][ /\ (resp'.kind = "log_callback" /\ resp'.status = 200) =>
              ViewLogs(log_buffer', resp'.body.d["node_id"], resp'.body.d["pm_id"])
                  = resp'.body.d["content"]
        /\ \A p \in LogPairs :
              ViewLogs(log_buffer', p[1], p[2]) /= ViewLogs(log_buffer, p[1], p[2]) =>
                  /\ resp'.kind = "log_callback" /\ resp'.status = 200
                  /\ <<resp'.body.d["node_id"], resp'.body.d["pm_id"]>> = p ]_vars

\* C31: an accepted log callback for one (node_id, pm_id) pair leaves what a
\* read returns for every different pair as it was, also for identifiers that
\* hold the separator "_".
C31_PairsNeverAlias ==
    [][ (resp'.kind = "log_callback" /\ resp'.status = 200) =>
            \A p \in LogPairs :
                p /= <<resp'.body.d["node_id"], resp'.body.d["pm_id"]>> =>
                    ViewLogs(log_buffer', p[1], p[2]) = ViewLogs(log_buffer, p[1], p[2])
      ]_vars

\* C32: the reply of the proxy to a node response with a JSON body has the
\* node's status code and the node's body, as JSON; the reply to a node
\* response whose body is not JSON is a JSON error object that holds at most
\* the first ExcerptLen characters of the node's body; so every reply the
\* proxy writes after a forward is JSON.
C32_RelayIsJson ==
    (resp.kind = "proxy" /\ "response" \in DOMAIN resp) =>
        /\ resp.content_type = "application/json"
        /\ resp.response.kind = "response" =>
              IF Loads(resp.response.body)
              THEN /\ resp.status = resp.response.code
                   /\ resp.reply = resp.response.body.value
              ELSE /\ "error" \in DOMAIN resp.reply
                   /\ "excerpt" \in DOMAIN resp.reply["error"] =>
                         LET e == resp.reply["error"]["excerpt"]
                         IN  /\ Len(e) <= ExcerptLen
                             /\ e = Take(resp.response.body.text, Len(e))

\* C33: while a forward waits for its node the master serves the other
\* requests as it does otherwise: an accepted heartbeat registers the sender
\* and drains its mailbox, an accepted control request appends its command to
\* the mailbox, an accepted callback stores its content, a login is answered
\* by its password and counted by the rate limiter, and the forward is still
\* waiting afterwards.
C33_ServesDuringForward ==
    [][ (inflight /= {} /\ resp'.kind /= "proxy") =>
          /\ inflight' = inflight
          /\ resp'.kind \in {"heartbeat", "control", "log_callback", "apps_callback",
                             "login"}
          /\ resp'.status \in {200, 403, 429}
          /\ resp'.kind = "heartbeat" =>
                /\ resp'.node_id \in DOMAIN nodes'
                /\ nodes'[resp'.node_id]["last_seen"] = clock
                /\ resp'.commands = Get(command_queue, resp'.node_id, <<>>)
                /\ Get(command_queue', resp'.node_id, <<>>) = <<>>
          /\ resp'.kind = "control" =>
                LET d == resp'.body.d
                IN  Get(command_queue', d["node_id"], <<>>) =
                        Append(Get(command_queue, d["node_id"], <<>>),
                               [action |-> d["action"], pm_id |-> d["pm_id"]])
          /\ resp'.kind = "log_callback" =>
                LET d == resp'.body.d
                IN  GetLogs(log_buffer', d["node_id"], d["pm_id"]) = d["content"]
          /\ resp'.kind = "apps_callback" =>
                node_apps'[resp'.body.d["node_id"]] = resp'.body.d["apps"]
          /\ resp'.kind = "login" =>
                /\ resp'.status = 429 <=>
                      (resp'.ip \in DOMAIN lockouts /\ clock < lockouts[resp'.ip])
                /\ resp'.status = 200 <=>
                      /\ resp'.status /= 429
                      /\ resp'.body.d["password"] = auth_password
                /\ resp'.status = 200 => resp'.ip \notin DOMAIN failures'
                /\ resp'.status = 403 =>
                      /\ resp'.ip \in DOMAIN failures'
                      /\ failures'[resp'.ip].count =
                            IF resp'.ip \in DOMAIN failures
                            THEN failures[resp'.ip].count + 1 ELSE 1
      ]_vars

\* a heartbeat that drains a command, answered while a forward waits
C33_Witness ==
    /\ inflight /= {}
    /\ resp.kind = "heartbeat" /\ resp.status = 200
    /\ resp.commands /= <<>>
    /\ log_buffer /= EmptyDict /\ node_apps /= EmptyDict
    /\ failures /= EmptyDict

\* C34: every login attempt that is rejected, for a wrong password (403) or
\* for an active lockout (429), spends the 1 second of time.sleep before its
\* response.
C34_EveryFailureDelayed ==
    (resp.kind = "login" /\ resp.status \in {403, 429}) => resp.slept = 1

\* C35: in every state the failure count of every IP the limiter holds is
\* between 1 and Threshold, an IP whose count is Threshold has a lockout, and
\* an attempt made during a lockout is refused (429).
C35_CountInRange ==
    /\ \A ip \in DOMAIN failures :
          /\ failures[ip].count \in 1..Threshold
          /\ failures[ip].count = Threshold => ip \in DOMAIN lockouts
    /\ (resp.kind = "login" /\ resp.locked) => resp.status = 429

\* an attempt refused during the lockout of an IP whose count is Threshold
C35_Witness ==
    /\ resp.kind = "login" /\ resp.status = 429
    /\ resp.ip \in DOMAIN failures
    /\ failures[resp.ip].count = Threshold

\* C36: a login attempt made during the lockout of its IP changes neither
\* the failure records nor the lockouts, and every lockout ends
\* LockoutSeconds after the failure that set it.
C36_LockedAttemptChangesNothing ==
    [][ /\ (resp'.kind = "login" /\ resp'.status = 429) =>
              /\ failures' = failures
              /\ lockouts' = lockouts
        /\ \A ip \in DOMAIN lockouts' :
              /\ ip \in DOMAIN fails'
              /\ lockouts'[ip] = fails'[ip][Len(fails'[ip])] + LockoutSeconds
      ]_vars

\* the second attempt in a row that a lockout refuses
C36_Witness ==
    /\ resp.kind = "login" /\ resp.status = 429
    /\ resp.wait < LockoutSeconds - 1
    /\ nfail = Threshold

\* the mailboxes of every node but node_id are the same before and after
OtherMailboxesUnchanged(node_id) ==
    \A n \in (DOMAIN command_queue \cup DOMAIN command_queue') \ {node_id} :
        /\ n \in DOMAIN command_queue /\ n \in DOMAIN command_queue'
        /\ command_queue'[n] = command_queue[n]

\* C37: an accepted heartbeat of node A returns the content of A's mailbox,
\* all of it commands that were enqueued for A, and leaves the mailbox of
\* every other node as it was; an accepted control request for A leaves the
\* mailbox of every other node as it was.
C37_MailboxesIsolated ==
    [][ /\ (resp'.kind = "heartbeat" /\ resp'.status = 200) =>
              /\ resp'.commands = Get(command_queue, resp'.node_id, <<>>)
              /\ \A i \in 1..Len(resp'.commands) :
                    resp'.commands[i] \in Range(Get(enq, resp'.node_id, <<>>))
              /\ OtherMailboxesUnchanged(resp'.node_id)
        /\ (resp'.kind = "control" /\ resp'.status = 200) =>
              OtherMailboxesUnchanged(resp'.body.d["node_id"])
      ]_vars

\* node a's heartbeat has drained a's mailbox while b's mailbox holds a command
C37_Witness ==
    /\ resp.kind = "heartbeat" /\ resp.status = 200
    /\ resp.node_id = NodeA /\ resp.commands /= <<>>
    /\ NodeB \in DOMAIN command_queue /\ command_queue[NodeB] /= <<>>

\* s is the beginning of t
IsPrefix(s, t) == Len(s) <= Len(t) /\ SubSeq(t, 1, Len(s)) = s

\* C38: a command that an accepted control request enqueues is in the
\* mailbox of its node_id afterwards, whether or not that node is registered
\* or online; the content of a mailbox stays in it, in its place, through
\* every step but an accepted heartbeat that carries the mailbox's node_id,
\* and that heartbeat's response holds the whole content.
C38_PendingCommandKept ==
    [][ /\ (resp'.kind = "control" /\ resp'.status = 200) =>
              LET d == resp'.body.d
              IN  /\ d["node_id"] \in DOMAIN command_queue'
                  /\ command_queue'[d["node_id"]] /= <<>>
                  /\ command_queue'[d["node_id"]][Len(command_queue'[d["node_id"]])]
                        = [action |-> d["action"], pm_id |-> d["pm_id"]]
        /\ \A n \in DOMAIN command_queue :
              IF resp'.kind = "heartbeat" /\ resp'.status = 200 /\ resp'.node_id = n
              THEN resp'.commands = command_queue[n]
              ELSE /\ n \in DOMAIN command_queue'
                   /\ IsPrefix(command_queue[n], command_queue'[n])
      ]_vars

\* a command enqueued for a node gone offline is delivered by the heartbeat
\* with which the node comes back
C38_Witness ==
    /\ resp.kind = "heartbeat" /\ resp.status = 200
    /\ resp.commands /= <<>>
    /\ resp.replaced /= PyNone
    /\ ~IsOnline(resp.replaced, clock)
    /\ resp.since = 0

\* the entries of a store under every key but k are the same in s and t
OthersSame(s, t, k) ==
    \A j \in (DOMAIN s \cup DOMAIN t) \ {k} :
        j \in DOMAIN s /\ j \in DOMAIN t /\ s[j] = t[j]

\* C39: an accepted heartbeat leaves the log store, the inventory store, the
\* registry records of the other nodes and their mailboxes as they were; an
\* accepted log callback changes nothing but the log entry of its key, and an
\* accepted inventory callback nothing but the inventory of its node: both
\* leave the registry, with every last_seen, and every mailbox as they were.
C39_StoresIndependent ==
    [][ /\ (resp'.kind = "heartbeat" /\ resp'.status = 200) =>
              /\ log_buffer' = log_buffer
              /\ node_apps' = node_apps
              /\ OthersSame(nodes, nodes', resp'.node_id)
              /\ OthersSame(command_queue, command_queue', resp'.node_id)
        /\ (resp'.kind = "log_callback" /\ resp'.status = 200) =>
              /\ nodes' = nodes /\ node_order' = node_order
              /\ command_queue' = command_queue
              /\ node_apps' = node_apps
              /\ OthersSame(log_buffer, log_buffer',
                            LogKey(resp'.body.d["node_id"], resp'.body.d["pm_id"]))
        /\ (resp'.kind = "apps_callback" /\ resp'.status = 200) =>
              /\ nodes' = nodes /\ node_order' = node_order
              /\ command_queue' = command_queue
              /\ log_buffer' = log_buffer
              /\ OthersSame(node_apps, node_apps', resp'.body.d["node_id"])
      ]_vars

\* an inventory callback of node a, whose last heartbeat is OnlineThreshold
\* seconds old, while a command waits for a and the stores hold entries of b
C39_Witness ==
    /\ resp.kind = "apps_callback" /\ resp.status = 200
    /\ resp.body.d["node_id"] = NodeA
    /\ NodeA \in DOMAIN nodes /\ ~IsOnline(nodes[NodeA], clock)
    /\ Get(command_queue, NodeA, <<>>) /= <<>>
    /\ NodeB \in DOMAIN node_apps
    /\ GetLogs(log_buffer, NodeB, Pm3) /= PyNone

\* C40: the commands a round executes are those of its heartbeat response,
\* in the order of the response; every step of a round that is executing
\* finishes the first command not finished yet, with that command's
\* callback, and leaves the commands after it, in their order, still to be
\* executed.
C40_CommandsInResponseOrder ==
    [][ /\ \A id \in DOMAIN rounds' :
              (rounds'[id].phase = "executing"
                  /\ (id \notin DOMAIN rounds \/ rounds[id].phase = "sending")) =>
                  /\ resp'.kind = "heartbeat" /\ resp'.status = 200
                  /\ rounds'[id].cmds = resp'.commands
        /\ \A id \in DOMAIN rounds :
              (rounds[id].phase = "executing"
                  /\ (id \notin DOMAIN rounds' \/ rounds'[id] /= rounds[id])) =>
                  LET c == Head(rounds[id].cmds)
                  IN  /\ IF Len(rounds[id].cmds) = 1 THEN id \notin DOMAIN rounds'
                         ELSE /\ id \in DOMAIN rounds'
                              /\ rounds'[id] =
                                    Round("executing", Tail(rounds[id].cmds))
                      /\ resp'.kind \in {"log_callback", "apps_callback", "agent"}
                      /\ resp'.kind = "log_callback" =>
                            /\ c.action = "logs"
                            /\ resp'.body.d["pm_id"] = c.pm_id
                      /\ resp'.kind = "apps_callback" => c.action = "list_apps"
                      /\ resp'.kind = "agent" =>
                            /\ resp'.event \in {"done", "failed"}
                            /\ resp'.cmd = c
      ]_vars

\* the first of the two commands of a response is done; the second, a
\* `logs` command enqueued after it, has not been executed yet
C40_Witness ==
    /\ resp.kind = "agent" /\ resp.event = "done"
    /\ resp.cmd.action = "restart"
    /\ log_buffer = EmptyDict
    /\ \E id \in DOMAIN rounds :
          /\ rounds[id].phase = "executing"
          /\ Len(rounds[id].cmds) = 1
          /\ rounds[id].cmds[1].action = "logs"
          /\ Get(enq, NodeA, <<>>) = <<resp.cmd, rounds[id].cmds[1]>>

====
